---- MODULE Spec2Model ----
(***************************************************************************)
(* Example retrieval and prompt assembly of ChatQBJS.                      *)
(*                                                                         *)
(* Strings are sequences of one-character strings, so that lower-casing,   *)
(* whitespace splitting, joining and key building are computed character   *)
(* by character.  A field that is absent from a record (undefined in the   *)
(* source language) is the value Missing, which is no sequence of          *)
(* characters.                                                             *)
(***************************************************************************)
EXTENDS Integers, Sequences, FiniteSets, TLC

VARIABLES
    cachedDB,            \* retrieval.ts: module-level index (null or built)
    cachedSamplesHash,   \* retrieval.ts: fingerprint stored with the index
    pc,                  \* "idle", or the call that has just returned
    userPrompt,          \* argument of the last call
    maxExamples,         \* argument of the last call
    argSamples,          \* the corpus array as it was handed to the call
    samples,             \* the same array after the call
    result,              \* list returned by retrieveRelevantExamples
    argHistory,          \* the transcript array as it was handed to the call
    conversationHistory, \* the same array after the call
    outcome,             \* "none" | "returned" | "threw"
    initialPrompts,      \* prompt sequence built by initializeSession
    searchTerm,          \* retrieveRelevantExamples: searchTerm of the last call
    scoredSamples,       \* retrieveRelevantExamples: scoredSamples after the sort
    sizeBudget,          \* the size budget the prompt was assembled under
    historyWindow,     \* argument of the last formatConversationHistory call
    historyPrompts,      \* list returned by formatConversationHistory
    fewShotPrompts,      \* list returned by formatFewShotExamples
    appMessages,         \* app.ts setup: the transcript array (messages)
    requests,            \* app.ts: one record per submit that passed the blank check
    useRemoteModel,      \* app.ts: module-level flag
    experimentMockReply, \* config.ts: the mock switch
    apiKey,              \* storage.ts: the stored API key, Missing when none
    clock                \* number of messages created so far (id and ts)

vars == <<cachedDB, cachedSamplesHash, pc, userPrompt, maxExamples, argSamples,
          samples, result, argHistory, conversationHistory, outcome,
          initialPrompts, searchTerm, scoredSamples, sizeBudget,
          historyWindow, historyPrompts, fewShotPrompts, appMessages,
          requests, useRemoteModel, experimentMockReply, apiKey, clock>>

\* the state of the application (app.ts, storage.ts, config.ts)
appVars == <<appMessages, requests, useRemoteModel, experimentMockReply,
             apiKey, clock>>

\* what the last direct call of a function left behind
callVars == <<pc, userPrompt, maxExamples, argSamples, samples, result,
              argHistory, conversationHistory, outcome, initialPrompts,
              searchTerm, scoredSamples, sizeBudget, historyWindow,
              historyPrompts, fewShotPrompts>>

-----------------------------------------------------------------------------
(* Bounds of the model.                                                    *)

MaxCorpus == 2      \* longest corpus built freely from SamplePool
MaxDup == 4         \* most copies of one entry in a duplicated corpus
MaxLimit == 2       \* largest maxExamples passed to a direct retrieval call
MaxHistory == 2     \* longest transcript handed to initializeSession
MaxTranscript == 4  \* longest transcript handed to the assembly on its own
MaxSlack == 40      \* largest size budget tried, counted from L - 1

-----------------------------------------------------------------------------
(* Characters and strings.                                                 *)

Missing == <<"undefined">>

WhiteSpace == {" ", "\n", "\t"}

IsSpace(c) == c \in WhiteSpace

LowerOf ==
    [c \in {"A", "B", "C", "D", "E", "X", "Y"} |->
        CASE c = "A" -> "a" [] c = "B" -> "b" [] c = "C" -> "c"
          [] c = "D" -> "d" [] c = "E" -> "e" [] c = "X" -> "x"
          [] c = "Y" -> "y"]

toLowerCase(s) ==
    [i \in 1..Len(s) |-> IF s[i] \in DOMAIN LowerOf THEN LowerOf[s[i]] ELSE s[i]]

\* String.prototype.trim: the string without leading and trailing whitespace.
trim(s) ==
    LET keep == {i \in 1..Len(s) : ~IsSpace(s[i])}
    IN  IF keep = {} THEN <<>>
        ELSE LET lo == CHOOSE i \in keep : \A j \in keep : i <= j
                 hi == CHOOSE i \in keep : \A j \in keep : j <= i
             IN  SubSeq(s, lo, hi)

\* s.split(/\s+/): the pieces between maximal runs of whitespace; a string
\* that starts or ends with whitespace yields an empty first or last piece.
RECURSIVE SplitFrom(_, _, _, _)
SplitFrom(s, i, cur, acc) ==
    IF i > Len(s) THEN Append(acc, cur)
    ELSE IF IsSpace(s[i])
         THEN IF i > 1 /\ IsSpace(s[i - 1])
              THEN SplitFrom(s, i + 1, cur, acc)
              ELSE SplitFrom(s, i + 1, <<>>, Append(acc, cur))
         ELSE SplitFrom(s, i + 1, Append(cur, s[i]), acc)

splitWhitespace(s) == SplitFrom(s, 1, <<>>, <<>>)

\* Array.prototype.join
RECURSIVE join(_, _)
join(words, sep) ==
    IF words = <<>> THEN <<>>
    ELSE IF Len(words) = 1 THEN words[1]
    ELSE words[1] \o sep \o join(Tail(words), sep)

\* `${n}` for a small natural number
Digit == <<"0", "1", "2", "3", "4", "5", "6", "7", "8", "9">>

RECURSIVE NumStr(_)
NumStr(n) == IF n < 10 THEN <<Digit[n + 1]>>
             ELSE NumStr(n \div 10) \o <<Digit[(n % 10) + 1]>>

\* value || "" on a string field: undefined and "" both give ""
OrEmpty(v) == IF v = Missing THEN <<>> ELSE v

\* !value on a string field: undefined and "" are falsy
Falsy(v) == v = Missing \/ v = <<>>

Min(a, b) == IF a < b THEN a ELSE b

\* arr.slice(from): the end index dropped
ArraySliceNoEnd(arr, from, to) ==
    [ret |-> SubSeq(arr, from + 1, Len(arr)), arr |-> arr]

\* arr.splice(from, to - from): returns the same elements as slice, and
\* removes them from the array
ArraySplice(arr, from, to) ==
    [ret |-> SubSeq(arr, from + 1, Min(to, Len(arr))),
     arr |-> SubSeq(arr, 1, from) \o SubSeq(arr, Min(to, Len(arr)) + 1, Len(arr))]

\* arr.slice(from, to) with 0 <= from: the copy it returns (ret) and the
\* array it was called on afterwards (arr)
ArraySlice(arr, from, to) ==
    [ret |-> SubSeq(arr, from + 1, Min(to, Len(arr))), arr |-> arr]

-----------------------------------------------------------------------------
(* retrieval.ts                                                            *)

stopWords == {
    <<"a">>,
    <<"a","n">>,
    <<"a","n","d">>,
    <<"a","r","e">>,
    <<"a","s">>,
    <<"a","t">>,
    <<"b","e">>,
    <<"b","y">>,
    <<"f","o","r">>,
    <<"f","r","o","m">>,
    <<"h","a","s">>,
    <<"h","e">>,
    <<"i","n">>,
    <<"i","s">>,
    <<"i","t">>,
    <<"i","t","s">>,
    <<"o","f">>,
    <<"o","n">>,
    <<"t","h","a","t">>,
    <<"t","h","e">>,
    <<"t","o">>,
    <<"w","a","s">>,
    <<"w","i","l","l">>,
    <<"w","i","t","h">>,
    <<"p","l","e","a","s","e">>,
    <<"g","e","n","e","r","a","t","e">>,
    <<"c","r","e","a","t","e">>,
    <<"m","a","k","e">>,
    <<"s","h","o","w">>,
    <<"d","r","a","w">>,
    <<"d","i","s","p","l","a","y">>,
    <<"c","o","d","e">>,
    <<"p","r","o","g","r","a","m">> }

IsKeyword(word) == Len(word) > 1 /\ word \notin stopWords

extractKeywords(prompt) ==
    SelectSeq(splitWhitespace(toLowerCase(prompt)), IsKeyword)

\* `${samples.length}-${samples[0]?.description || ""}-${last?.description || ""}`
hashSamples(smpls) ==
    NumStr(Len(smpls)) \o <<"-">>
      \o (IF smpls = <<>> THEN <<>> ELSE OrEmpty(smpls[1].description))
      \o <<"-">>
      \o (IF smpls = <<>> THEN <<>> ELSE OrEmpty(smpls[Len(smpls)].description))

NoDB == [built |-> FALSE, docs |-> <<>>]

\* create(...) followed by one insert per sample: the documents of the index
BuildDatabase(smpls) ==
    [built |-> TRUE,
     docs  |-> [i \in 1..Len(smpls) |->
                   [description |-> OrEmpty(smpls[i].description),
                    code        |-> OrEmpty(smpls[i].code)]]]

\* the index replaced without its fingerprint
getOrCreateDatabaseKeepHash(smpls, db, hash) ==
    IF db.built /\ hash = hashSamples(smpls)
    THEN [db |-> db, hash |-> hash]
    ELSE [db |-> BuildDatabase(smpls),
          hash |-> IF db.built THEN hash ELSE hashSamples(smpls)]

\* the index and fingerprint after getOrCreateDatabase(samples)
getOrCreateDatabase(smpls, db, hash) ==
    IF db.built /\ hash = hashSamples(smpls)
    THEN [db |-> db, hash |-> hash]
    ELSE [db |-> BuildDatabase(smpls), hash |-> hashSamples(smpls)]

-----------------------------------------------------------------------------
(* The full-text search library behind create / insert / search, as the    *)
(* specification describes it (section 4.1, steps 3 and 4): matching is    *)
(* case-insensitive and token by token, a query token matches a token of   *)
(* a searched field when the two differ by at most `tolerance` character   *)
(* edits, an exact token match scores at least as high as a fuzzy one, and *)
(* hits come ordered by score, equal scores in insertion order.            *)

IsToken(word) == word # <<>>

Tokenize(text) == SelectSeq(splitWhitespace(toLowerCase(text)), IsToken)

\* at most k insertions, deletions or substitutions turn a into b
RECURSIVE WithinEdits(_, _, _)
WithinEdits(a, b, k) ==
    IF k < 0 THEN FALSE
    ELSE IF a = <<>> THEN Len(b) <= k
    ELSE IF b = <<>> THEN Len(a) <= k
    ELSE IF Head(a) = Head(b) THEN WithinEdits(Tail(a), Tail(b), k)
    ELSE \/ WithinEdits(Tail(a), Tail(b), k - 1)
         \/ WithinEdits(Tail(a), b, k - 1)
         \/ WithinEdits(a, Tail(b), k - 1)

TokenMatches(token, word, tolerance) == WithinEdits(token, word, tolerance)

TokenScore(token, word, tolerance) ==
    IF token = word THEN 2
    ELSE IF TokenMatches(token, word, tolerance) THEN 1 ELSE 0

RECURSIVE SumSeq(_)
SumSeq(ns) == IF ns = <<>> THEN 0 ELSE Head(ns) + SumSeq(Tail(ns))

\* term frequency and coverage: every (query token, field token) match counts
FieldScore(tokens, text, tolerance) ==
    LET words == Tokenize(text)
    IN  SumSeq([i \in 1..Len(tokens) |->
            SumSeq([j \in 1..Len(words) |->
                TokenScore(tokens[i], words[j], tolerance)])])

DocScore(doc, tokens, properties, tolerance) ==
    SumSeq([p \in 1..Len(properties) |->
        FieldScore(tokens, doc[properties[p]], tolerance)])

\* ids ordered by score, highest first, equal scores by insertion order
RECURSIVE RankIds(_, _)
RankIds(ids, score) ==
    IF ids = {} THEN <<>>
    ELSE LET best == CHOOSE i \in ids :
                        \A j \in ids : \/ score[i] > score[j]
                                       \/ score[i] = score[j] /\ i <= j
         IN  <<best>> \o RankIds(ids \ {best}, score)

\* search(db, {term, properties, limit, tolerance}).hits
search(db, term, properties, limit, tolerance) ==
    LET tokens == Tokenize(term)
        score  == [i \in 1..Len(db.docs) |->
                      DocScore(db.docs[i], tokens, properties, tolerance)]
        ranked == RankIds({i \in 1..Len(db.docs) : score[i] > 0}, score)
        kept   == SubSeq(ranked, 1, Min(limit, Len(ranked)))
    IN  [h \in 1..Len(kept) |->
            [score |-> score[kept[h]], document |-> db.docs[kept[h]]]]

-----------------------------------------------------------------------------
(* retrieveRelevantExamples                                                *)

SearchPropertiesWithCode == <<"description", "code">>

SearchProperties == <<"description">>

SearchLimitNotDoubled(n) == n

SearchLimit(n) == n * 2

SearchToleranceExact == 1 - 1

SearchTolerance == 1

KeySeparator == <<"|", "|", "|">>

\* `${hit.document.description}|||${hit.document.code}`
uniqueKey(doc) == doc.description \o KeySeparator \o doc.code

\* samples.find(s => s.description === d && s.code === c): index of the
\* first such element, 0 when there is none
FindSample(smpls, doc) ==
    LET found == {i \in 1..Len(smpls) :
                     /\ smpls[i].description = doc.description
                     /\ smpls[i].code = doc.code}
    IN  IF found = {} THEN 0
        ELSE CHOOSE i \in found : \A j \in found : i <= j

\* the loop over the hits without the lookup of an existing key
RECURSIVE BuildScoreMapNoDedup(_, _, _)
BuildScoreMapNoDedup(hits, smpls, scoreMap) ==
    IF hits = <<>> THEN scoreMap
    ELSE LET hit == Head(hits)
             idx == FindSample(smpls, hit.document)
         IN  BuildScoreMapNoDedup(Tail(hits), smpls,
                IF idx # 0
                THEN Append(scoreMap, [key |-> uniqueKey(hit.document),
                                       index |-> idx, sample |-> smpls[idx],
                                       score |-> hit.score])
                ELSE scoreMap)

\* the loop over the hits with the score of a repeated key left as it is
RECURSIVE BuildScoreMapNoSum(_, _, _)
BuildScoreMapNoSum(hits, smpls, scoreMap) ==
    IF hits = <<>> THEN scoreMap
    ELSE LET hit == Head(hits)
             key == uniqueKey(hit.document)
             idx == FindSample(smpls, hit.document)
         IN  BuildScoreMapNoSum(Tail(hits), smpls,
                IF \E i \in 1..Len(scoreMap) : scoreMap[i].key = key
                THEN scoreMap
                ELSE IF idx # 0
                THEN Append(scoreMap, [key |-> key, index |-> idx,
                                       sample |-> smpls[idx],
                                       score |-> hit.score])
                ELSE scoreMap)

\* the loop over the hits: scoreMap as its entries in insertion order
RECURSIVE BuildScoreMap(_, _, _)
BuildScoreMap(hits, smpls, scoreMap) ==
    IF hits = <<>> THEN scoreMap
    ELSE LET hit   == Head(hits)
             key   == uniqueKey(hit.document)
             at    == {i \in 1..Len(scoreMap) : scoreMap[i].key = key}
             idx   == FindSample(smpls, hit.document)
             next  ==
                IF at # {}
                THEN [i \in 1..Len(scoreMap) |->
                        IF i \in at
                        THEN [scoreMap[i] EXCEPT !.score = @ + hit.score]
                        ELSE scoreMap[i]]
                ELSE IF idx # 0
                THEN Append(scoreMap, [key |-> key, index |-> idx,
                                       sample |-> smpls[idx],
                                       score |-> hit.score])
                ELSE scoreMap
         IN  BuildScoreMap(Tail(hits), smpls, next)

\* scoredSamples.sort((a, b) => b.score - a.score): stable, highest first
RECURSIVE SortByScore(_)
SortByScore(entries) ==
    IF entries = <<>> THEN <<>>
    ELSE LET n      == Len(entries)
             sorted == SortByScore(SubSeq(entries, 1, n - 1))
             e      == entries[n]
             before == {i \in 1..Len(sorted) : sorted[i].score >= e.score}
             k      == Cardinality(before)
         IN  SubSeq(sorted, 1, k) \o <<e>> \o SubSeq(sorted, k + 1, Len(sorted))

\* !userPrompt without the trim
IsBlankNoTrim(prompt) == prompt = <<>>

\* !userPrompt.trim()
IsBlank(prompt) == trim(prompt) = <<>>

\* keywords.join(" ") without the fall back to the full prompt
SearchTermNoFallback(prompt) == join(extractKeywords(prompt), <<" ">>)

SearchTerm(prompt) ==
    LET keywords == extractKeywords(prompt)
    IN  IF Len(keywords) > 0 THEN join(keywords, <<" ">>) ELSE prompt

\* the hits the search call of retrieveRelevantExamples gets from index db
DescriptionResults(prompt, limit, db) ==
    search(db, SearchTerm(prompt), SearchProperties, SearchLimit(limit),
           SearchTolerance)

\* One call: the list returned (result), the corpus array afterwards
\* (samples), the module-level cache afterwards (db, hash), and the locals
\* searchTerm (term) and scoredSamples after the sort (scored), both empty
\* on the path that returns before they are computed.
retrieveRelevantExamples(prompt, smpls, limit, db, hash) ==
    IF IsBlank(prompt) \/ Len(smpls) = 0
    THEN LET sl == ArraySlice(smpls, 0, limit)
         IN  [result |-> sl.ret, samples |-> sl.arr, db |-> db, hash |-> hash,
              term |-> <<>>, scored |-> <<>>]
    ELSE LET cache    == getOrCreateDatabase(smpls, db, hash)
             hits     == DescriptionResults(prompt, limit, cache.db)
             scoreMap == BuildScoreMap(hits, smpls, <<>>)
             sorted   == SortByScore(scoreMap)
             top      == ArraySlice(sorted, 0, limit).ret
         IN  [result  |-> [i \in 1..Len(top) |-> top[i].sample],
              samples |-> smpls,
              db      |-> cache.db,
              hash    |-> cache.hash,
              term    |-> SearchTerm(prompt),
              scored  |-> sorted]

-----------------------------------------------------------------------------
(* session.ts                                                              *)

SystemPromptLength == 617

\* the text of SYSTEM_PROMPT matters to assembly only by its length
SYSTEM_PROMPT == [i \in 1..SystemPromptLength |-> "s"]

MAX_ESTIMATED_SIZE == 100000

DefaultMaxExamples == 8

InitialHistoryPairs == 2

ReducedHistoryPairs == 1

\* maxHistoryPairs when the caller passes none
DefaultHistoryPairs == 5

\* the characters JSON.stringify writes for one character of a string
EscapeChar(c) ==
    CASE c = "\"" -> <<"\\", "\"">>
      [] c = "\\" -> <<"\\", "\\">>
      [] c = "\n" -> <<"\\", "n">>
      [] c = "\t" -> <<"\\", "t">>
      [] OTHER    -> <<c>>

RECURSIVE EscapeString(_)
EscapeString(s) ==
    IF s = <<>> THEN <<>> ELSE EscapeChar(Head(s)) \o EscapeString(Tail(s))

\* JSON.stringify({ code: text })
StringifyCode(text) ==
    <<"{", "\"", "c", "o", "d", "e", "\"", ":", "\"">>
      \o EscapeString(text) \o <<"\"", "}">>

\* one pair per sample, none skipped
RECURSIVE formatFewShotExamplesNoSkip(_)
formatFewShotExamplesNoSkip(smpls) ==
    IF smpls = <<>> THEN <<>>
    ELSE <<[role |-> "user", content |-> OrEmpty(Head(smpls).description)],
           [role |-> "assistant",
            content |-> StringifyCode(OrEmpty(Head(smpls).code))]>>
         \o formatFewShotExamplesNoSkip(Tail(smpls))

RECURSIVE formatFewShotExamples(_)
formatFewShotExamples(smpls) ==
    IF smpls = <<>> THEN <<>>
    ELSE LET sample == Head(smpls)
         IN  IF Falsy(sample.description) \/ Falsy(sample.code)
             THEN formatFewShotExamples(Tail(smpls))
             ELSE <<[role |-> "user", content |-> sample.description],
                    [role |-> "assistant", content |-> StringifyCode(sample.code)]>>
                  \o formatFewShotExamples(Tail(smpls))

\* the first loop of formatConversationHistory, from index i on
RECURSIVE HistoryPairs(_, _)
HistoryPairs(messages, i) ==
    IF i > Len(messages) THEN <<>>
    ELSE IF /\ messages[i].role = "user"
            /\ i + 1 <= Len(messages)
            /\ messages[i + 1].role = "system"
         THEN <<[user |-> messages[i], system |-> messages[i + 1]]>>
              \o HistoryPairs(messages, i + 2)
         ELSE HistoryPairs(messages, i + 1)

\* arr.slice(0, n)
SliceFirst(arr, n) == SubSeq(arr, 1, Min(n, Len(arr)))

\* arr.slice(-n)
SliceLast(arr, n) ==
    IF n = 0 \/ n >= Len(arr) THEN arr
    ELSE SubSeq(arr, Len(arr) - n + 1, Len(arr))

RECURSIVE PairPrompts(_)
PairPrompts(pairs) ==
    IF pairs = <<>> THEN <<>>
    ELSE <<[role |-> "user", content |-> Head(pairs).user.text],
           [role |-> "assistant",
            content |-> StringifyCode(Head(pairs).system.text)]>>
         \o PairPrompts(Tail(pairs))

\* the prompts returned (ret) and the transcript array afterwards (messages)
formatConversationHistory(messages, maxHistoryPairs) ==
    [ret |-> PairPrompts(SliceLast(HistoryPairs(messages, 1), maxHistoryPairs)),
     messages |-> messages]

estimatePromptSize(prompts) ==
    SumSeq([i \in 1..Len(prompts) |-> Len(prompts[i].content)])

\* the loop with the size of the history left out of its comparison
RECURSIVE AddExamplesIgnoringHistory(_, _, _, _, _)
AddExamplesIgnoringHistory(formatted, currentSize, historySize, examplePrompts, maxEstimatedSize) ==
    IF formatted = <<>>
    THEN [examplePrompts |-> examplePrompts, currentSize |-> currentSize]
    ELSE LET exampleSize == estimatePromptSize(<<Head(formatted)>>)
         IN  IF currentSize + exampleSize > maxEstimatedSize
             THEN [examplePrompts |-> examplePrompts, currentSize |-> currentSize]
             ELSE AddExamplesIgnoringHistory(Tail(formatted),
                                             currentSize + exampleSize,
                                             historySize,
                                             Append(examplePrompts, Head(formatted)),
                                             maxEstimatedSize)

\* the loop that adds formatted example messages while the budget allows
\* with maxEstimatedSize the limit the loop compares against
RECURSIVE AddExamples(_, _, _, _, _)
AddExamples(formatted, currentSize, historySize, examplePrompts, maxEstimatedSize) ==
    IF formatted = <<>>
    THEN [examplePrompts |-> examplePrompts, currentSize |-> currentSize]
    ELSE LET exampleSize == estimatePromptSize(<<Head(formatted)>>)
         IN  IF currentSize + exampleSize + historySize > maxEstimatedSize
             THEN [examplePrompts |-> examplePrompts, currentSize |-> currentSize]
             ELSE AddExamples(Tail(formatted), currentSize + exampleSize,
                              historySize,
                              Append(examplePrompts, Head(formatted)),
                              maxEstimatedSize)

\* [...historyPrompts, ...examplePrompts] behind the system message
ConcatPromptsHistoryFirst(basePrompts, examplePrompts, history) ==
    basePrompts \o history \o examplePrompts

\* [...basePrompts, ...examplePrompts, ...historyPrompts]
ConcatPrompts(basePrompts, examplePrompts, history) ==
    basePrompts \o examplePrompts \o history

\* The assembly of initializeSession, from "Format few-shot examples" to
\* initialPrompts, with the limit it compares sizes against as a parameter:
\* the prompt sequence (initialPrompts) and the transcript array afterwards
\* (messages).
assemble(relevantSamples, history, maxEstimatedSize) ==
    LET formattedExamples == formatFewShotExamples(relevantSamples)
        first       == formatConversationHistory(history, InitialHistoryPairs)
        basePrompts == <<[role |-> "system", content |-> SYSTEM_PROMPT]>>
        added       == AddExamples(formattedExamples,
                                   estimatePromptSize(basePrompts),
                                   estimatePromptSize(first.ret), <<>>,
                                   maxEstimatedSize)
        tooLarge    == added.currentSize + estimatePromptSize(first.ret)
                          > maxEstimatedSize
        second      == formatConversationHistory(first.messages,
                                                 ReducedHistoryPairs)
        history2    == IF tooLarge THEN second.ret ELSE first.ret
    IN  [initialPrompts |-> ConcatPrompts(basePrompts, added.examplePrompts,
                                          history2),
         messages       |-> IF tooLarge THEN second.messages ELSE first.messages]

\* initialPrompts as initializeSession builds it from the retrieved samples
\* and the transcript, under MAX_ESTIMATED_SIZE
AssemblePrompts(relevantSamples, history) ==
    assemble(relevantSamples, history, MAX_ESTIMATED_SIZE)

\* formatConversationHistory of src/src/session.ts: no window, the user
\* message pushed before the look-ahead, the reply under the role "model"
RECURSIVE SessionTs_formatConversationHistory(_, _)
SessionTs_formatConversationHistory(messages, i) ==
    IF i > Len(messages) THEN <<>>
    ELSE IF messages[i].role = "user"
         THEN IF i + 1 <= Len(messages) /\ messages[i + 1].role = "system"
              THEN <<[role |-> "user", content |-> messages[i].text],
                     [role |-> "model",
                      content |-> StringifyCode(messages[i + 1].text)]>>
                   \o SessionTs_formatConversationHistory(messages, i + 2)
              ELSE <<[role |-> "user", content |-> messages[i].text]>>
                   \o SessionTs_formatConversationHistory(messages, i + 1)
         ELSE SessionTs_formatConversationHistory(messages, i + 1)

\* sample.description.substring(...) of the logging loop throws on a sample
\* without a description
LoggingThrows(relevantSamples) ==
    \E i \in 1..Len(relevantSamples) : relevantSamples[i].description = Missing

\* what session.destroy() does when it is called: it returns no promise,
\* returns a promise that resolves or rejects, or throws
DestroyOutcomes == {"returns", "resolves", "rejects", "throws"}

\* destroySession of src/src/session.ts: session.destroy().catch(...) with
\* nothing around it; calls counts the calls of session.destroy, settles is
\* how the promise of destroySession settles
SessionTs_destroySession(session, d) ==
    IF session = "none" THEN [calls |-> 0, settles |-> "resolved"]
    ELSE [calls   |-> 1,
          settles |-> CASE d = "throws"   -> "rejected"
                        [] d = "returns"  -> "rejected"
                        [] d = "resolves" -> "resolved"
                        [] d = "rejects"  -> "resolved"]

\* destroySession of the current session module: the call in a try block,
\* the result awaited only when it is a promise, its rejection swallowed
destroySession(session, d) ==
    IF session = "none" THEN [calls |-> 0, settles |-> "resolved"]
    ELSE [calls   |-> 1,
          settles |-> CASE d = "throws"   -> "resolved"
                        [] d = "returns"  -> "resolved"
                        [] d = "resolves" -> "resolved"
                        [] d = "rejects"  -> "resolved"]

-----------------------------------------------------------------------------
(* Inputs of the calls.                                                    *)

SampleAbCd == [description |-> <<"a", "b">>, code |-> <<"c", "d">>]

SampleAbX == [description |-> <<"a", "b">>, code |-> <<"x">>]

SampleBeAb == [description |-> <<"b", "e", " ", "a", "b">>, code |-> <<"x">>]

SampleCdNoCode == [description |-> <<"c", "d">>, code |-> Missing]

SampleTwoWords == [description |-> <<"a", "b", " ", "c", "d">>, code |-> <<"x">>]

SampleNoDescription == [description |-> Missing, code |-> <<"x">>]

SampleEmptyDescription == [description |-> <<>>, code |-> <<"a", "b">>]

SampleUpper == [description |-> <<"A", "b">>, code |-> <<"x">>]

SampleCdX == [description |-> <<"c", "d">>, code |-> <<"x">>]

SampleEmptyCode == [description |-> <<"c", "d">>, code |-> <<>>]

SampleQuoted == [description |-> <<"a", "b">>, code |-> <<"\"", "\n", "\\">>]

\* two samples with different fields and one key: "ab||| ab|||x"
SampleSepInDescription ==
    [description |-> <<"a", "b", "|", "|", "|", " ", "a", "b">>, code |-> <<"x">>]

SampleSepInCode ==
    [description |-> <<"a", "b">>, code |-> <<" ", "a", "b", "|", "|", "|", "x">>]

\* the separator text in a field, and a key no other sample has
SampleSepOnly == [description |-> <<"a", "b">>, code |-> <<"|", "|", "|">>]

SamplePool == {SampleAbCd, SampleAbX, SampleBeAb}

FreeCorpora == UNION {[1..n -> SamplePool] : n \in 0..MaxCorpus}

SpecialCorpora ==
    { <<SampleTwoWords>>,
      <<SampleUpper>>,
      <<SampleCdNoCode>>,
      <<SampleCdNoCode, SampleAbCd>>,
      <<SampleAbCd, SampleCdX>>,
      <<SampleNoDescription, SampleAbX>>,
      <<SampleEmptyDescription, SampleAbX>> }

\* n copies of one entry followed by a different entry that also matches "ab"
DupCorpora == {[i \in 1..(n + 1) |-> IF i <= n THEN SampleAbX ELSE SampleAbCd] :
                  n \in 1..MaxDup}

\* corpora with the separator text of the key inside a field
SeparatorCorpora ==
    { <<SampleSepInDescription, SampleSepInCode>>,
      <<SampleSepInCode, SampleSepInDescription>>,
      <<SampleSepOnly, SampleAbX>>,
      <<SampleSepInDescription, SampleSepOnly, SampleSepInCode>> }

Corpora == FreeCorpora \cup SpecialCorpora \cup DupCorpora

Queries ==
    { <<>>,
      <<" ">>,
      <<"a", "b">>,
      <<"B", "e", " ", "A", "b">>,
      <<"a", "b", "c">>,
      <<"c", "d">>,
      <<"a", "b", "c", "d">>,
      <<"b", "e">>,
      <<" ", "x", " ", "C", "d">> }

Limits == 0..MaxLimit

\* the requests initializeSession is called with
SessionPrompts == {<<" ">>, <<"a", "b">>, <<"B", "e", " ", "A", "b">>}

\* the corpus bundled with the application (samples.json)
fewShotSamples == <<SampleAbX, SampleBeAb, SampleAbCd>>

Roles == {"user", "system", "error"}

MessageAt(i, role) ==
    [id |-> NumStr(i), role |-> role, text |-> <<"m", "\"", Digit[i + 1]>>, ts |-> i]

Histories ==
    {[i \in 1..Len(roles) |-> MessageAt(i, roles[i])] :
        roles \in UNION {[1..n -> Roles] : n \in 0..MaxHistory}}

Backends == {"ok", "unavailable", "createFails"}

\* lists of retrieved examples handed to the assembly
RankedLists ==
    { <<>>,
      <<SampleAbX>>,
      <<SampleAbX, SampleBeAb, SampleAbCd>>,
      <<SampleBeAb, SampleAbX>>,
      <<SampleEmptyDescription, SampleAbX>>,
      <<SampleCdNoCode, SampleAbCd>> }

\* lists of samples handed to formatFewShotExamples on its own
ExampleLists ==
    RankedLists \cup
    { <<SampleNoDescription, SampleAbX>>,
      <<SampleAbCd, SampleEmptyCode, SampleBeAb>>,
      <<SampleQuoted, SampleCdNoCode, SampleEmptyDescription, SampleAbX>>,
      <<SampleNoDescription, SampleEmptyCode>> }

\* transcripts with three answered requests
LongTranscripts ==
    {[i \in 1..Len(roles) |-> MessageAt(i, roles[i])] :
        roles \in {<<"user", "system", "user", "system", "user", "system">>,
                   <<"user", "system", "error", "user", "system", "user",
                     "user", "system">>}}

Transcripts ==
    {[i \in 1..Len(roles) |-> MessageAt(i, roles[i])] :
        roles \in UNION {[1..n -> Roles] : n \in 0..MaxTranscript}}
    \cup LongTranscripts

\* size budgets from one below the length of the system prompt upwards
Budgets == {SystemPromptLength - 1 + d : d \in 0..MaxSlack}

\* the values of maxHistoryPairs the source calls with, and the default
Windows == {ReducedHistoryPairs, InitialHistoryPairs, DefaultHistoryPairs}

-----------------------------------------------------------------------------
(* The state machine.                                                      *)

Init ==
    /\ cachedDB = NoDB
    /\ cachedSamplesHash = <<>>
    /\ pc = "idle"
    /\ userPrompt = <<>>
    /\ maxExamples = 0
    /\ argSamples = <<>>
    /\ samples = <<>>
    /\ result = <<>>
    /\ argHistory = <<>>
    /\ conversationHistory = <<>>
    /\ outcome = "none"
    /\ initialPrompts = <<>>
    /\ searchTerm = <<>>
    /\ scoredSamples = <<>>
    /\ sizeBudget = 0
    /\ historyWindow = 0
    /\ historyPrompts = <<>>
    /\ fewShotPrompts = <<>>
    /\ appMessages = <<>>
    /\ requests = <<>>
    /\ useRemoteModel = FALSE
    /\ experimentMockReply = FALSE
    /\ apiKey = Missing
    /\ clock = 0

\* a direct call retrieveRelevantExamples(q, c, l)
Retrieve(q, c, l) ==
    /\ pc = "idle"
    /\ \E r \in {retrieveRelevantExamples(q, c, l, cachedDB, cachedSamplesHash)} :
           /\ result' = r.result
           /\ samples' = r.samples
           /\ cachedDB' = r.db
           /\ cachedSamplesHash' = r.hash
           /\ searchTerm' = r.term
           /\ scoredSamples' = r.scored
    /\ pc' = "retrieve"
    /\ userPrompt' = q
    /\ maxExamples' = l
    /\ argSamples' = c
    /\ outcome' = "returned"
    /\ UNCHANGED <<argHistory, conversationHistory, initialPrompts, sizeBudget,
                   historyWindow, historyPrompts, fewShotPrompts>>
    /\ UNCHANGED appVars

\* a call initializeSession(q, h) with the default maxExamples; backend says
\* what LanguageModel.availability and LanguageModel.create do
InitializeSession(q, h, backend) ==
    /\ pc = "idle"
    /\ pc' = "session"
    /\ userPrompt' = q
    /\ maxExamples' = DefaultMaxExamples
    /\ argSamples' = fewShotSamples
    /\ argHistory' = h
    /\ UNCHANGED <<historyWindow, historyPrompts, fewShotPrompts>>
    /\ UNCHANGED appVars
    /\ IF backend = "unavailable"
       THEN /\ outcome' = "threw"
            /\ samples' = fewShotSamples
            /\ conversationHistory' = h
            /\ UNCHANGED <<cachedDB, cachedSamplesHash, result, initialPrompts,
                           searchTerm, scoredSamples, sizeBudget>>
       ELSE \E r \in {retrieveRelevantExamples(q, fewShotSamples,
                         DefaultMaxExamples, cachedDB, cachedSamplesHash)} :
            \E a \in {AssemblePrompts(r.result, h)} :
                /\ result' = r.result
                /\ samples' = r.samples
                /\ cachedDB' = r.db
                /\ cachedSamplesHash' = r.hash
                /\ searchTerm' = r.term
                /\ scoredSamples' = r.scored
                /\ IF LoggingThrows(r.result)
                   THEN /\ outcome' = "threw"
                        /\ conversationHistory' = h
                        /\ UNCHANGED <<initialPrompts, sizeBudget>>
                   ELSE /\ outcome' = IF backend = "ok" THEN "returned"
                                      ELSE "threw"
                        /\ conversationHistory' = a.messages
                        /\ initialPrompts' = a.initialPrompts
                        /\ sizeBudget' = MAX_ESTIMATED_SIZE

\* the assembly of initializeSession on its own: retrieved examples ex, the
\* transcript h, and b in the place of MAX_ESTIMATED_SIZE
Assemble(ex, h, b) ==
    /\ pc = "idle"
    /\ pc' = "assemble"
    /\ result' = ex
    /\ argHistory' = h
    /\ sizeBudget' = b
    /\ outcome' = "returned"
    /\ \E a \in {assemble(ex, h, b)} :
           /\ conversationHistory' = a.messages
           /\ initialPrompts' = a.initialPrompts
    /\ UNCHANGED <<cachedDB, cachedSamplesHash, userPrompt, maxExamples,
                   argSamples, samples, searchTerm, scoredSamples,
                   historyWindow, historyPrompts, fewShotPrompts>>
    /\ UNCHANGED appVars

\* a call destroySession(session) of the current session module; a
\* rejection is the outcome "threw"
CallDestroySession(session, d) ==
    /\ pc = "idle"
    /\ pc' = "destroySession"
    /\ outcome' = IF destroySession(session, d).settles = "resolved"
                  THEN "returned" ELSE "threw"
    /\ UNCHANGED <<cachedDB, cachedSamplesHash, userPrompt, maxExamples,
                   argSamples, samples, result, argHistory,
                   conversationHistory, initialPrompts, searchTerm,
                   scoredSamples, sizeBudget, historyWindow, historyPrompts,
                   fewShotPrompts>>
    /\ UNCHANGED appVars

\* a call destroySession(session) of src/src/session.ts
CallSessionTsDestroySession(session, d) ==
    /\ pc = "idle"
    /\ pc' = "destroySessionTs"
    /\ outcome' = IF SessionTs_destroySession(session, d).settles = "resolved"
                  THEN "returned" ELSE "threw"
    /\ UNCHANGED <<cachedDB, cachedSamplesHash, userPrompt, maxExamples,
                   argSamples, samples, result, argHistory,
                   conversationHistory, initialPrompts, searchTerm,
                   scoredSamples, sizeBudget, historyWindow, historyPrompts,
                   fewShotPrompts>>
    /\ UNCHANGED appVars

\* a call formatFewShotExamples(ex)
CallFormatFewShotExamples(ex) ==
    /\ pc = "idle"
    /\ pc' = "examples"
    /\ result' = ex
    /\ outcome' = "returned"
    /\ fewShotPrompts' = formatFewShotExamples(ex)
    /\ UNCHANGED <<cachedDB, cachedSamplesHash, userPrompt, maxExamples,
                   argSamples, samples, argHistory, conversationHistory,
                   initialPrompts, searchTerm, scoredSamples, sizeBudget,
                   historyWindow, historyPrompts>>
    /\ UNCHANGED appVars

\* a call formatConversationHistory(h, n) of the current session module
CallFormatConversationHistory(h, n) ==
    /\ pc = "idle"
    /\ pc' = "history"
    /\ argHistory' = h
    /\ historyWindow' = n
    /\ outcome' = "returned"
    /\ \E r \in {formatConversationHistory(h, n)} :
           /\ conversationHistory' = r.messages
           /\ historyPrompts' = r.ret
    /\ UNCHANGED <<cachedDB, cachedSamplesHash, userPrompt, maxExamples,
                   argSamples, samples, result, initialPrompts, searchTerm,
                   scoredSamples, sizeBudget, fewShotPrompts>>
    /\ UNCHANGED appVars

\* a call formatConversationHistory(h) of src/src/session.ts
CallSessionTsFormatConversationHistory(h) ==
    /\ pc = "idle"
    /\ pc' = "historySessionTs"
    /\ argHistory' = h
    /\ conversationHistory' = h
    /\ outcome' = "returned"
    /\ historyPrompts' = SessionTs_formatConversationHistory(h, 1)
    /\ UNCHANGED <<cachedDB, cachedSamplesHash, userPrompt, maxExamples,
                   argSamples, samples, result, initialPrompts, searchTerm,
                   scoredSamples, sizeBudget, historyWindow, fewShotPrompts>>
    /\ UNCHANGED appVars

\* the call's results are consumed and its frame is gone; the cache stays
Return ==
    /\ pc # "idle"
    /\ pc' = "idle"
    /\ userPrompt' = <<>>
    /\ maxExamples' = 0
    /\ argSamples' = <<>>
    /\ samples' = <<>>
    /\ result' = <<>>
    /\ argHistory' = <<>>
    /\ conversationHistory' = <<>>
    /\ outcome' = "none"
    /\ initialPrompts' = <<>>
    /\ searchTerm' = <<>>
    /\ scoredSamples' = <<>>
    /\ sizeBudget' = 0
    /\ historyWindow' = 0
    /\ historyPrompts' = <<>>
    /\ fewShotPrompts' = <<>>
    /\ UNCHANGED <<cachedDB, cachedSamplesHash>>
    /\ UNCHANGED appVars

Next ==
    \/ \E q \in Queries, c \in Corpora, l \in Limits : Retrieve(q, c, l)
    \/ \E q \in SessionPrompts, h \in Histories, backend \in Backends :
          InitializeSession(q, h, backend)
    \/ Return

Spec == Init /\ [][Next]_vars

\* retrieveRelevantExamples called with the corpora of SeparatorCorpora
NextKeys ==
    \/ \E q \in Queries, c \in SeparatorCorpora, l \in Limits : Retrieve(q, c, l)
    \/ Return

SpecKeys == Init /\ [][NextKeys]_vars

\* the prompt assembly and the history formatting applied to their inputs
NextAssemble ==
    \/ /\ pc = "idle"
       /\ \E ex \in RankedLists, h \in Transcripts, b \in Budgets :
             Assemble(ex, h, b)
    \/ /\ pc = "idle"
       /\ \E h \in Transcripts, n \in Windows :
             CallFormatConversationHistory(h, n)
    \/ /\ pc = "idle"
       /\ \E h \in Transcripts : CallSessionTsFormatConversationHistory(h)
    \/ /\ pc = "idle"
       /\ \E ex \in ExampleLists : CallFormatFewShotExamples(ex)
    \/ /\ pc = "idle"
       /\ \E session \in {"none", "created"}, d \in DestroyOutcomes :
             CallDestroySession(session, d)
    \/ /\ pc = "idle"
       /\ \E session \in {"none", "created"}, d \in DestroyOutcomes :
             CallSessionTsDestroySession(session, d)
    \/ Return

SpecAssemble == Init /\ [][NextAssemble]_vars

-----------------------------------------------------------------------------
(* The chat application: the submit handler of app.ts and what surrounds   *)
(* it.  A handler runs to its next await in one step; every await is a     *)
(* point where other handlers run.                                         *)

MaxSubmits == 2     \* most submits that pass the blank check in one run

\* config.ts: the code a mocked reply carries
SYSTEM_REPLY_CODE == <<"x">>

\* the message texts of the errors the handler can catch, each held as one
\* unit
InvalidFormatMessage == <<"Invalid response format: missing code field">>

UnavailableMessage == <<"Language model is unavailable. Please check your Chrome version and system requirements.">>

SyntaxErrorMessage == <<"SyntaxError">>

TypeErrorMessage == <<"TypeError">>

RejectedMessage == <<"rejected">>

\* the inverse of the escaping of JSON.stringify on the body of a string
\* literal; not ok when the body is no legal string body
RECURSIVE UnescapeString(_)
UnescapeString(s) ==
    IF s = <<>> THEN [ok |-> TRUE, value |-> <<>>]
    ELSE IF Head(s) \in {"\"", "\n", "\t"} THEN [ok |-> FALSE, value |-> <<>>]
    ELSE IF Head(s) = "\\"
         THEN IF Len(s) < 2 \/ s[2] \notin {"\"", "\\", "n", "t"}
              THEN [ok |-> FALSE, value |-> <<>>]
              ELSE LET c    == CASE s[2] = "n" -> "\n"
                                 [] s[2] = "t" -> "\t"
                                 [] OTHER      -> s[2]
                       rest == UnescapeString(SubSeq(s, 3, Len(s)))
                   IN  [ok |-> rest.ok, value |-> <<c>> \o rest.value]
         ELSE LET rest == UnescapeString(Tail(s))
              IN  [ok |-> rest.ok, value |-> <<Head(s)>> \o rest.value]

IsDigits(s) == s # <<>> /\ \A i \in 1..Len(s) : \E d \in 1..10 : s[i] = Digit[d]

\* JSON.parse on the texts a backend answers with: null, an object without
\* members, an object whose one member is code (a string or a number), and
\* everything else a SyntaxError.  type is typeof parsed.code.
JSONParse(text) ==
    LET prefix == <<"{", "\"", "c", "o", "d", "e", "\"", ":">>
        bad    == [kind |-> "SyntaxError", type |-> "undefined", value |-> <<>>]
    IN  IF text = <<"{", "}">>
        THEN [kind |-> "object", type |-> "undefined", value |-> <<>>]
        ELSE IF text = <<"n", "u", "l", "l">>
        THEN [kind |-> "null", type |-> "undefined", value |-> <<>>]
        ELSE IF /\ Len(text) > Len(prefix) + 1
                /\ SubSeq(text, 1, Len(prefix)) = prefix
                /\ text[Len(text)] = "}"
        THEN LET v == SubSeq(text, Len(prefix) + 1, Len(text) - 1)
             IN  IF IsDigits(v)
                 THEN [kind |-> "object", type |-> "number", value |-> v]
                 ELSE IF Len(v) >= 2 /\ v[1] = "\"" /\ v[Len(v)] = "\""
                 THEN LET u == UnescapeString(SubSeq(v, 2, Len(v) - 1))
                      IN  IF u.ok
                          THEN [kind |-> "object", type |-> "string",
                                value |-> u.value]
                          ELSE bad
                 ELSE bad
        ELSE bad

\* what a backend call settles with
Rejects == [kind |-> "rejects", text |-> <<>>]

Resolves(text) == [kind |-> "text", text |-> text]

NotSettled == [kind |-> "none", text |-> <<>>]

\* the body of the inner try of the local path once prompt() has settled:
\* the code to show, or the message of the error thrown
ParseReply(out) ==
    IF out.kind = "rejects" THEN [ok |-> FALSE, text |-> RejectedMessage]
    ELSE LET parsed == JSONParse(out.text)
         IN  IF parsed.kind = "SyntaxError"
             THEN [ok |-> FALSE, text |-> SyntaxErrorMessage]
             ELSE IF parsed.kind = "null"
             THEN [ok |-> FALSE, text |-> TypeErrorMessage]
             ELSE IF parsed.type # "string"
             THEN [ok |-> FALSE, text |-> InvalidFormatMessage]
             ELSE [ok |-> TRUE, text |-> parsed.value]

\* the remote path takes the text of the response as the code
RemoteReply(out) ==
    IF out.kind = "rejects" THEN [ok |-> FALSE, text |-> RejectedMessage]
    ELSE [ok |-> TRUE, text |-> out.text]

\* a ChatMessage created now
NewMessage(role, text) ==
    [id |-> NumStr(clock + 1), role |-> role, text |-> text, ts |-> clock + 1]

\* texts typed into the input
SubmitTexts == {<<" ">>, <<" ", "a", "b">>, <<"c", "d">>}

\* texts a backend answers with
ResponseTexts ==
    { StringifyCode(<<"x">>),
      StringifyCode(<<"\"", "y">>),
      <<"{", "\"", "c", "o", "d", "e", "\"", ":", "1", "}">>,
      <<"{", "}">>,
      <<"n", "u", "l", "l">>,
      <<"x">> }

BackendOutcomes == {Rejects} \cup {Resolves(t) : t \in ResponseTexts}

\* values of the API key field of the settings form
ApiKeys == {<<>>, <<"k">>}

\* the page after setup(): an empty stored transcript, the stored model
\* preference and API key, and the mock switch of the build
InitApp ==
    /\ cachedDB = NoDB
    /\ cachedSamplesHash = <<>>
    /\ pc = "idle"
    /\ userPrompt = <<>>
    /\ maxExamples = 0
    /\ argSamples = <<>>
    /\ samples = <<>>
    /\ result = <<>>
    /\ argHistory = <<>>
    /\ conversationHistory = <<>>
    /\ outcome = "none"
    /\ initialPrompts = <<>>
    /\ searchTerm = <<>>
    /\ scoredSamples = <<>>
    /\ sizeBudget = 0
    /\ historyWindow = 0
    /\ historyPrompts = <<>>
    /\ fewShotPrompts = <<>>
    /\ appMessages = <<>>
    /\ requests = <<>>
    /\ useRemoteModel \in BOOLEAN
    /\ experimentMockReply \in BOOLEAN
    /\ apiKey \in {Missing} \cup ApiKeys
    /\ clock = 0

\* formatRemoteConversationHistory takes the last 2 * maxHistoryPairs messages
DefaultRemoteHistoryPairs == 10

\* the loop of formatRemoteConversationHistory: user and system messages are
\* kept, with the role "model" for system ones; error messages are dropped
RECURSIVE RemoteEntries(_)
RemoteEntries(recentMessages) ==
    IF recentMessages = <<>> THEN <<>>
    ELSE LET msg == Head(recentMessages)
         IN  (IF msg.role = "user"
              THEN <<[role |-> "user", text |-> msg.text]>>
              ELSE IF msg.role = "system"
                   THEN <<[role |-> "model", text |-> msg.text]>>
                   ELSE <<>>)
             \o RemoteEntries(Tail(recentMessages))

formatRemoteConversationHistory(messages, maxHistoryPairs) ==
    RemoteEntries(SliceLast(messages, maxHistoryPairs * 2))

\* the text between SYSTEM_PROMPT and the user prompt in the first message
FirstMessageInfix ==
    <<"\n", "\n", "N", "o", "w", ",", " ", "p", "l", "e",
       "a", "s", "e", " ", "g", "e", "n", "e", "r", "a",
       "t", "e", " ", "Q", "B", "J", "S", " ", "c", "o",
       "d", "e", " ", "f", "o", "r", ":", " ">>

\* the contents generateRemoteResponse passes to generateContent
generateRemoteResponse(prompt, history) ==
    LET formattedHistory ==
            formatRemoteConversationHistory(history, DefaultRemoteHistoryPairs)
    IN  IF Len(formattedHistory) = 0
        THEN <<[role |-> "user",
                text |-> SYSTEM_PROMPT \o FirstMessageInfix \o prompt]>>
        ELSE formattedHistory \o <<[role |-> "user", text |-> prompt]>>

\* the reply the older generateRemoteResponse puts after the system prompt
Entendido == <<" ", "e", "n", "t", "e", "n", "d", "i", "d", "o", ".">>

\* the older generateRemoteResponse: the history of startChat followed by the
\* message of sendMessage
RemoteSessionTs_generateRemoteResponse(prompt, history) ==
    <<[role |-> "user", text |-> SYSTEM_PROMPT],
      [role |-> "model", text |-> Entendido]>>
    \o formatRemoteConversationHistory(history, DefaultRemoteHistoryPairs)
    \o <<[role |-> "user", text |-> prompt]>>

\* the submit handler up to its first await (or its return)
Submit(raw) ==
    /\ Len(requests) < MaxSubmits
    /\ UNCHANGED <<cachedDB, cachedSamplesHash, callVars, useRemoteModel,
                   experimentMockReply, apiKey>>
    /\ \E text \in {trim(raw)} :
         IF text = <<>>
         THEN UNCHANGED <<appMessages, requests, clock>>
         ELSE \E path \in {IF experimentMockReply THEN "mock"
                           ELSE IF useRemoteModel
                                THEN IF Falsy(apiKey) THEN "noKey" ELSE "remote"
                                ELSE "local"} :
              /\ appMessages' = Append(appMessages, NewMessage("user", text))
              /\ clock' = clock + 1
              /\ requests' = Append(requests,
                   [text     |-> text,
                    userMsg  |-> NewMessage("user", text).id,
                    systemMsg |-> <<>>,
                    path     |-> path,
                    stage    |-> CASE path = "mock"   -> "timeout"
                                   [] path = "noKey"  -> "returned"
                                   [] path = "remote" -> "sendMessage"
                                   [] path = "local"  -> "availability",
                    history  |-> IF path \in {"remote", "local"}
                                 THEN appMessages ELSE <<>>,
                    contents |-> IF path = "remote"
                                 THEN generateRemoteResponse(text, appMessages)
                                 ELSE <<>>,
                    chat     |-> IF path = "remote"
                                 THEN RemoteSessionTs_generateRemoteResponse(
                                          text, appMessages)
                                 ELSE <<>>,
                    interval |-> "running",
                    session  |-> "none",
                    sessionId |-> 0,
                    destroyCalls |-> 0,
                    destroySettled |-> "none",
                    prompts  |-> <<>>,
                    response |-> NotSettled,
                    reply    |-> [ok |-> FALSE, text |-> <<>>],
                    appended |-> "none"])

\* the tail of the handler: the interval cleared, then a system message with
\* the code, or (catch) an error message
Finish(i, reply, out) ==
    /\ appMessages' = Append(appMessages,
                         NewMessage(IF reply.ok THEN "system" ELSE "error",
                                    reply.text))
    /\ clock' = clock + 1
    /\ requests' = [requests EXCEPT ![i].stage = "done",
                                    ![i].interval = "cleared",
                                    ![i].response = out,
                                    ![i].reply = reply,
                                    ![i].systemMsg =
                                       NewMessage("system", reply.text).id,
                                    ![i].appended = IF reply.ok THEN "system"
                                                    ELSE "error"]

\* the 2 s timer of the mock path fires
MockTimeout(i) ==
    /\ requests[i].stage = "timeout"
    /\ Finish(i, [ok |-> TRUE, text |-> SYSTEM_REPLY_CODE], NotSettled)
    /\ UNCHANGED <<cachedDB, cachedSamplesHash, callVars, useRemoteModel,
                   experimentMockReply, apiKey>>

\* generateRemoteResponse settles
RemoteSettle(i, out) ==
    /\ requests[i].stage = "sendMessage"
    /\ Finish(i, RemoteReply(out), out)
    /\ UNCHANGED <<cachedDB, cachedSamplesHash, callVars, useRemoteModel,
                   experimentMockReply, apiKey>>

\* LanguageModel.availability settles: initializeSession runs on to
\* LanguageModel.create, or throws
AvailabilitySettle(i, backend) ==
    /\ requests[i].stage = "availability"
    /\ UNCHANGED <<callVars, useRemoteModel, experimentMockReply, apiKey>>
    /\ IF backend = "unavailable"
       THEN /\ Finish(i, [ok |-> FALSE, text |-> UnavailableMessage], NotSettled)
            /\ UNCHANGED <<cachedDB, cachedSamplesHash>>
       ELSE \E r \in {retrieveRelevantExamples(requests[i].text, fewShotSamples,
                         DefaultMaxExamples, cachedDB, cachedSamplesHash)} :
            /\ cachedDB' = r.db
            /\ cachedSamplesHash' = r.hash
            /\ IF LoggingThrows(r.result)
               THEN Finish(i, [ok |-> FALSE, text |-> TypeErrorMessage],
                           NotSettled)
               ELSE /\ requests' =
                         [requests EXCEPT
                            ![i].stage = "create",
                            ![i].prompts =
                               AssemblePrompts(r.result,
                                               requests[i].history).initialPrompts]
                    /\ UNCHANGED <<appMessages, clock>>

\* LanguageModel.create settles: the session is prompted, or the handler
\* catches the rejection
CreateSettle(i, backend) ==
    /\ requests[i].stage = "create"
    /\ UNCHANGED <<cachedDB, cachedSamplesHash, callVars, useRemoteModel,
                   experimentMockReply, apiKey>>
    /\ IF backend = "createFails"
       THEN Finish(i, [ok |-> FALSE, text |-> RejectedMessage], NotSettled)
       ELSE /\ requests' =
                 [requests EXCEPT
                    ![i].stage = "prompt",
                    ![i].session = "created",
                    ![i].sessionId =
                       1 + Cardinality({j \in 1..Len(requests) :
                                           requests[j].sessionId # 0})]
            /\ UNCHANGED <<appMessages, clock>>

\* currentSession.prompt settles: the reply is parsed and checked, and the
\* finally block calls destroySession
PromptSettle(i, out, d) ==
    /\ requests[i].stage = "prompt"
    /\ \E destroyed \in {destroySession(requests[i].session, d)} :
         requests' = [requests EXCEPT
                        ![i].stage = "destroy",
                        ![i].session = "destroyed",
                        ![i].destroyCalls = @ + destroyed.calls,
                        ![i].destroySettled = destroyed.settles,
                        ![i].response = out,
                        ![i].reply = ParseReply(out)]
    /\ UNCHANGED <<cachedDB, cachedSamplesHash, callVars, appMessages, clock,
                   useRemoteModel, experimentMockReply, apiKey>>

\* destroySession has settled: the handler goes on behind the finally
\* block, or with the rejection of destroySession in the catch block
DestroySettle(i) ==
    /\ requests[i].stage = "destroy"
    /\ Finish(i,
              IF requests[i].destroySettled = "rejected"
              THEN [ok |-> FALSE, text |-> RejectedMessage]
              ELSE requests[i].reply,
              requests[i].response)
    /\ UNCHANGED <<cachedDB, cachedSamplesHash, callVars, useRemoteModel,
                   experimentMockReply, apiKey>>

\* the settings form is submitted
SaveSettings(model, key) ==
    /\ useRemoteModel' = (model = "remote")
    /\ apiKey' = key
    /\ UNCHANGED <<cachedDB, cachedSamplesHash, callVars, appMessages,
                   requests, experimentMockReply, clock>>

\* the clear button
ClearMessages ==
    /\ appMessages' = <<>>
    /\ UNCHANGED <<cachedDB, cachedSamplesHash, callVars, requests,
                   useRemoteModel, experimentMockReply, apiKey, clock>>

NextApp ==
    \/ \E raw \in SubmitTexts : Submit(raw)
    \/ \E i \in 1..Len(requests) : MockTimeout(i)
    \/ \E i \in 1..Len(requests), out \in BackendOutcomes : RemoteSettle(i, out)
    \/ \E i \in 1..Len(requests), backend \in {"ok", "unavailable"} :
          AvailabilitySettle(i, backend)
    \/ \E i \in 1..Len(requests), backend \in {"ok", "createFails"} :
          CreateSettle(i, backend)
    \/ \E i \in 1..Len(requests), out \in BackendOutcomes, d \in DestroyOutcomes :
          PromptSettle(i, out, d)
    \/ \E i \in 1..Len(requests) : DestroySettle(i)
    \/ \E model \in {"local", "remote"}, key \in ApiKeys : SaveSettings(model, key)
    \/ ClearMessages

SpecApp == InitApp /\ [][NextApp]_vars

\* the next step of the i-th request: its timer fires or its pending backend
\* call settles.  The availability call is enabled for both of its outcomes
\* in the same states and either outcome leaves the stage, so naming one
\* outcome says that the call settles without saying how
SettleRequest(i) ==
    /\ i <= Len(requests)
    /\ \/ MockTimeout(i)
       \/ \E out \in BackendOutcomes : RemoteSettle(i, out)
       \/ AvailabilitySettle(i, "unavailable")
       \/ \E backend \in {"ok", "createFails"} : CreateSettle(i, backend)
       \/ \E out \in BackendOutcomes, d \in DestroyOutcomes :
              PromptSettle(i, out, d)
       \/ DestroySettle(i)

\* a timer that was set fires and a backend call that was made settles
BackendsSettle == \A i \in 1..MaxSubmits : WF_vars(SettleRequest(i))

FairSpecApp == SpecApp /\ BackendsSettle

-----------------------------------------------------------------------------
(* Properties of retrieveRelevantExamples.                                 *)

Ident(sample) == <<sample.description, sample.code>>

InList(list, x) == \E i \in 1..Len(list) : list[i] = x

\* the query of the last call is empty or holds whitespace only
BlankQuery == \A i \in 1..Len(userPrompt) : userPrompt[i] \in {" ", "\n", "\t"}

\* the last call was a direct retrieval with a non-blank query and a
\* non-empty corpus (the scored path)
Scored == pc = "retrieve" /\ ~BlankQuery /\ argSamples # <<>>

\* the last call was a direct retrieval with a blank query or an empty
\* corpus (the cold-start path)
ColdStart == pc = "retrieve" /\ (BlankQuery \/ argSamples = <<>>)

\* the index the call searched was built from the corpus of the call
IndexOfCorpus == cachedDB = BuildDatabase(argSamples)

AllFieldsPresent(smpls) ==
    \A i \in 1..Len(smpls) :
        smpls[i].description # Missing /\ smpls[i].code # Missing

SearchTokens == Tokenize(SearchTerm(userPrompt))

\* some search token is within one edit of some token of the text
MatchesQuery(text) ==
    \E t \in 1..Len(SearchTokens) :
        \E w \in 1..Len(Tokenize(text)) :
            WithinEdits(SearchTokens[t], Tokenize(text)[w], 1)

NoDuplicates(list) ==
    \A i, j \in 1..Len(list) : i # j => Ident(list[i]) # Ident(list[j])

\* C1: the list returned by retrieveRelevantExamples is never longer than
\* the limit nor than the corpus, on the cold-start and on the scored path.
C1_LengthBounded ==
    pc # "idle" =>
        /\ Len(result) <= maxExamples
        /\ Len(result) <= Len(argSamples)

C1_Witness ==
    /\ Scored
    /\ maxExamples >= 1
    /\ Len(result) = maxExamples
    /\ Cardinality({i \in 1..Len(argSamples) :
            /\ argSamples[i].description # Missing
            /\ MatchesQuery(argSamples[i].description)}) > maxExamples

\* C2 as claimed: for every query, blank ones included, the returned list
\* never holds two entries with the same (description, code).
C2_NoDuplicatesAnyQuery == pc = "retrieve" => NoDuplicates(result)

\* C2 as amended: on the scored path (non-blank query, non-empty corpus)
\* the returned list never holds two entries with the same (description,
\* code); the cold-start path returns the corpus prefix as it is.
C2_NoDuplicatesScored == Scored => NoDuplicates(result)

C2_Witness ==
    /\ Scored
    /\ maxExamples >= 2
    /\ \E i, j \in 1..Len(argSamples) :
          /\ i < j
          /\ argSamples[i] = argSamples[j]
          /\ InList(result, argSamples[i])

\* C3: cold start returns exactly the first min(limit, corpus length)
\* entries of the corpus, in order; an empty corpus gives the empty list.
C3_ColdStartPrefix ==
    ColdStart =>
        /\ result = SubSeq(argSamples, 1, Min(maxExamples, Len(argSamples)))
        /\ Len(result) = Min(maxExamples, Len(argSamples))
        /\ argSamples = <<>> => result = <<>>

C3_Witness ==
    /\ ColdStart
    /\ userPrompt = <<" ">>
    /\ maxExamples >= 1
    /\ Len(argSamples) > maxExamples
    /\ result = SubSeq(argSamples, 1, maxExamples)

\* C4: a call returns the same list as the same call made with an empty
\* index cache, whatever calls came before.
C4_PureOfArguments ==
    pc = "retrieve" =>
        result = retrieveRelevantExamples(userPrompt, argSamples, maxExamples,
                                          NoDB, <<>>).result

\* C5: a call leaves the corpus array and the transcript array as they
\* were handed to it.
C5_InputsUnchanged ==
    pc # "idle" => samples = argSamples /\ conversationHistory = argHistory

C5_Witness ==
    /\ pc = "session"
    /\ outcome = "returned"
    /\ Len(initialPrompts) > 3
    /\ \E i \in 1..Len(argHistory) : argHistory[i].role = "system"
    /\ samples = fewShotSamples

\* the corpus entries whose description is the query, ignoring case
ExactMatches ==
    {i \in 1..Len(argSamples) :
        /\ argSamples[i].description # Missing
        /\ toLowerCase(argSamples[i].description) = toLowerCase(userPrompt)}

\* C6: when the corpus holds an example whose description is the query
\* ignoring case, an example with that description is the first entry
\* returned, for limit >= 1, stop words in the query or not.  (Stated for a
\* corpus with all fields present and an index built from that corpus.)
C6_ExactMatchFirst ==
    (/\ Scored
     /\ maxExamples >= 1
     /\ AllFieldsPresent(argSamples)
     /\ IndexOfCorpus
     /\ ExactMatches # {})
    => /\ result # <<>>
       /\ toLowerCase(result[1].description) = toLowerCase(userPrompt)

\* the indexed documents that have a token within one edit of a search token
MatchingDocs ==
    {i \in 1..Len(cachedDB.docs) : MatchesQuery(cachedDB.docs[i].description)}

C8_DescriptionOnly ==
    Scored =>
        \A i \in 1..Len(result) :
            /\ result[i].description # Missing
            /\ MatchesQuery(result[i].description)

C8_Witness ==
    /\ Scored
    /\ result # <<>>
    /\ \E i \in 1..Len(argSamples) :
          /\ AllFieldsPresent(<<argSamples[i]>>)
          /\ MatchesQuery(argSamples[i].code)
          /\ ~MatchesQuery(argSamples[i].description)
          /\ ~InList(result, argSamples[i])

\* the (description, code) identities of the corpus that match the query
MatchingIdentities ==
    {Ident(argSamples[i]) : i \in {j \in 1..Len(argSamples) :
        /\ argSamples[j].description # Missing
        /\ MatchesQuery(argSamples[j].description)}}

\* C9 as claimed: when at least limit distinct identities match the query,
\* exactly limit entries are returned, duplicated corpus entries or not.
\* (Stated for a corpus with all fields present and an index built from it.)
C9_ExactlyLimitWhenEnoughMatch ==
    (/\ Scored
     /\ AllFieldsPresent(argSamples)
     /\ IndexOfCorpus
     /\ Cardinality(MatchingIdentities) >= maxExamples)
    => Len(result) = maxExamples

\* the keys of the corpus entries among the 2 * limit highest-ranked hits
TopHitKeys ==
    LET top == search(cachedDB, SearchTerm(userPrompt), <<"description">>,
                      2 * maxExamples, 1)
    IN  {uniqueKey(top[h].document) :
            h \in {k \in 1..Len(top) : FindSample(argSamples, top[k].document) # 0}}

\* C9 as amended: when the 2 * limit highest-ranked hits hold at least limit
\* corpus entries with pairwise distinct keys, exactly limit entries are
\* returned.
C9_LimitWhenTopHitsSuffice ==
    (Scored /\ Cardinality(TopHitKeys) >= maxExamples)
    => Len(result) = maxExamples

C9_Witness ==
    /\ Scored
    /\ maxExamples = 2
    /\ Len(result) = 2
    /\ \E i, j \in 1..Len(argSamples) :
          /\ i < j
          /\ argSamples[i] = argSamples[j]
          /\ InList(result, argSamples[i])

\* C10: a direct call never raises, and a corpus entry without a code whose
\* description matches the query is returned like any other match.  (Stated
\* for an index built from the corpus and a limit that does not cut the
\* list.)
C10_MissingCodeStillEligible ==
    /\ pc = "retrieve" => outcome = "returned"
    /\ (Scored /\ IndexOfCorpus /\ maxExamples >= Len(argSamples))
       => \A i \in 1..Len(argSamples) :
             (/\ argSamples[i].code = Missing
              /\ argSamples[i].description # Missing
              /\ MatchesQuery(argSamples[i].description))
             => InList(result, argSamples[i])

-----------------------------------------------------------------------------
(* Properties of the prompt assembly.                                      *)

\* the prompt assembly ran in the last call
Assembled == pc = "assemble" \/ (pc = "session" /\ outcome = "returned")

\* the formatted messages of the examples handed to the assembly
FormattedExamples == formatFewShotExamples(result)

\* the contents a message made from the transcript can have
HistoryContents ==
    UNION {{argHistory[i].text, StringifyCode(argHistory[i].text)} :
              i \in 1..Len(argHistory)}

IsHistoryMessage(m) == m.content \in HistoryContents

IsExampleMessage(m) == m.content \notin HistoryContents

\* the messages of the assembled prompt that come from examples
KeptExamples == SelectSeq(Tail(initialPrompts), IsExampleMessage)

\* the messages of the assembled prompt that come from the transcript
KeptHistory == SelectSeq(Tail(initialPrompts), IsHistoryMessage)

ContentSize(prompts) ==
    SumSeq([i \in 1..Len(prompts) |-> Len(prompts[i].content)])

\* C11: the assembled prompt is never empty, starts with the system message
\* holding the unmodified system prompt, holds no other system message, and
\* continues with the kept example messages (a prefix of the formatted
\* examples) followed by the kept history messages (the 2-pair or the 1-pair
\* window of the transcript).
C11_SystemThenExamplesThenHistory ==
    Assembled =>
        /\ initialPrompts # <<>>
        /\ initialPrompts[1] = [role |-> "system", content |-> SYSTEM_PROMPT]
        /\ \A i \in 2..Len(initialPrompts) : initialPrompts[i].role # "system"
        /\ Tail(initialPrompts) = KeptExamples \o KeptHistory
        /\ \E k \in 0..Len(FormattedExamples) :
              KeptExamples = SubSeq(FormattedExamples, 1, k)
        /\ \E n \in {1, 2} :
              KeptHistory = formatConversationHistory(argHistory, n).ret

C11_Witness ==
    /\ pc = "assemble"
    /\ KeptExamples # <<>>
    /\ KeptHistory # <<>>
    /\ Len(KeptExamples) < Len(FormattedExamples)

\* C12: the messages after the system message form whole (user, assistant)
\* pairs: a user message is always followed by its assistant message.
C12_WholePairs ==
    Assembled =>
        LET rest == Tail(initialPrompts)
        IN  /\ Len(rest) % 2 = 0
            /\ \A i \in 1..Len(rest) :
                  rest[i].role = IF i % 2 = 1 THEN "user" ELSE "assistant"

C14_TotalWithinBudget ==
    (Assembled /\ SystemPromptLength <= sizeBudget)
    => ContentSize(initialPrompts) <= sizeBudget

\* size of the history the walk over the examples reckons with
WalkHistorySize ==
    ContentSize(formatConversationHistory(argHistory, InitialHistoryPairs).ret)

\* C19: the kept example messages are a prefix of the formatted examples,
\* and every example that has a message in the prompt fitted as a whole
\* when it was added: system + examples up to it + history <= budget.
C19_ExampleAddedOnlyIfItFits ==
    Assembled =>
        /\ KeptExamples = SubSeq(FormattedExamples, 1, Len(KeptExamples))
        /\ \A j \in 1..Len(KeptExamples) :
              SystemPromptLength
                + ContentSize(SubSeq(FormattedExamples, 1, 2 * ((j + 1) \div 2)))
                + WalkHistorySize <= sizeBudget

\* positions of the user entries immediately followed by a system entry
AnsweredUsers ==
    {i \in 1..Len(argHistory) :
        /\ argHistory[i].role = "user"
        /\ i + 1 <= Len(argHistory)
        /\ argHistory[i + 1].role = "system"}

\* C20: formatConversationHistory, in either session module, returns one
\* (user, reply) pair for each user entry immediately followed by a system
\* entry (the most recent ones, when a window is given) and nothing else.
C20_OnePairPerAnsweredUser ==
    pc \in {"history", "historySessionTs"} =>
        LET n == IF pc = "history"
                 THEN Min(historyWindow, Cardinality(AnsweredUsers))
                 ELSE Cardinality(AnsweredUsers)
        IN  /\ Len(historyPrompts) = 2 * n
            /\ \A k \in 1..n :
                  \E i \in AnsweredUsers :
                      /\ Cardinality({j \in AnsweredUsers : j > i}) = n - k
                      /\ historyPrompts[2 * k - 1] =
                            [role |-> "user", content |-> argHistory[i].text]
                      /\ historyPrompts[2 * k].content =
                            StringifyCode(argHistory[i + 1].text)

-----------------------------------------------------------------------------
(* Properties of the search term, the de-duplication and the ordering.     *)

\* the positions where a word of s starts
WordStarts(s) ==
    {i \in 1..Len(s) : ~IsSpace(s[i]) /\ (i = 1 \/ IsSpace(s[i - 1]))}

\* the word of s that starts at position i
WordAt(s, i) ==
    LET last == CHOOSE j \in i..Len(s) :
                    /\ \A k \in i..j : ~IsSpace(s[k])
                    /\ (j = Len(s) \/ IsSpace(s[j + 1]))
    IN  SubSeq(s, i, last)

\* the words of s, maximal runs without whitespace, from position i on
RECURSIVE WordsFrom(_, _)
WordsFrom(s, i) ==
    IF i > Len(s) THEN <<>>
    ELSE IF i \in WordStarts(s)
         THEN <<WordAt(s, i)>> \o WordsFrom(s, i + 1)
         ELSE WordsFrom(s, i + 1)

Meaningful(word) == ~(Len(word) <= 1) /\ ~(word \in stopWords)

\* C16: on the scored path the search term is the lower-cased words of the
\* query that are longer than one character and no stop words, joined by
\* single spaces; when no word is left it is the query as typed; it is
\* never empty or blank.
C16_SearchTermFromKeywords ==
    Scored =>
        LET kept == SelectSeq(WordsFrom(toLowerCase(userPrompt), 1), Meaningful)
        IN  /\ searchTerm = IF kept = <<>> THEN userPrompt
                            ELSE join(kept, <<" ">>)
            /\ \E i \in 1..Len(searchTerm) : ~IsSpace(searchTerm[i])

C16_Witness ==
    /\ Scored
    /\ userPrompt = <<"b", "e">>
    /\ searchTerm = userPrompt
    /\ result # <<>>

\* the hits the search of the last call returned
LastHits ==
    search(cachedDB, searchTerm, <<"description">>, 2 * maxExamples, 1)

\* the sum of the scores of the hits with identity id
HitScoreSum(id) ==
    SumSeq([h \in 1..Len(LastHits) |->
               IF Ident(LastHits[h].document) = id THEN LastHits[h].score
               ELSE 0])

\* the first position of the corpus that holds an element with identity id
FirstInCorpus(id) ==
    LET at == {i \in 1..Len(argSamples) : Ident(argSamples[i]) = id}
    IN  IF at = {} THEN 0 ELSE CHOOSE i \in at : \A j \in at : i <= j

C18_SortedTiesInCorpusOrder ==
    Scored =>
        /\ Len(result) <= Len(scoredSamples)
        /\ \A i, j \in 1..Len(result) :
              /\ result[i] = scoredSamples[i].sample
              /\ i < j =>
                    \/ scoredSamples[i].score > scoredSamples[j].score
                    \/ /\ scoredSamples[i].score = scoredSamples[j].score
                       /\ FirstInCorpus(Ident(result[i]))
                             < FirstInCorpus(Ident(result[j]))

-----------------------------------------------------------------------------
(* Properties of the submit handler.                                       *)

\* the response text parses to an object whose code member is a string
HasStringCode(text) ==
    LET parsed == JSONParse(text)
    IN  parsed.kind = "object" /\ parsed.type = "string"

\* C15: on every generation path, a submit whose backend response carries no
\* string-valued code field appends an error message, never a system message.
C15_InvalidResponseAppendsError ==
    \A i \in 1..Len(requests) :
        (/\ requests[i].stage = "done"
         /\ requests[i].response.kind = "text"
         /\ ~HasStringCode(requests[i].response.text))
        => requests[i].appended = "error"

-----------------------------------------------------------------------------
(* Properties of the example formatting, the history window and the        *)
(* trimming.                                                               *)

\* formatFewShotExamples skips the sample
Skipped(sample) ==
    \/ sample.description \in {Missing, <<>>}
    \/ sample.code \in {Missing, <<>>}

NotSkipped(sample) == ~Skipped(sample)

\* C21: formatFewShotExamples skips the samples whose description or code
\* is empty or missing and gives, for each other sample in input order, a
\* user message with the description and an assistant message whose content
\* is the JSON text of an object with the one string field code; the list
\* has twice as many messages as there are samples not skipped.
C21_PairPerNonSkippedExample ==
    pc = "examples" =>
        LET kept == SelectSeq(result, NotSkipped)
        IN  /\ Len(fewShotPrompts) = 2 * Len(kept)
            /\ \A k \in 1..Len(kept) :
                  /\ fewShotPrompts[2 * k - 1] =
                        [role |-> "user", content |-> kept[k].description]
                  /\ fewShotPrompts[2 * k].role = "assistant"
                  /\ JSONParse(fewShotPrompts[2 * k].content) =
                        [kind |-> "object", type |-> "string",
                         value |-> kept[k].code]

C21_Witness ==
    /\ pc = "examples"
    /\ \E i \in 1..Len(result) : Skipped(result[i])
    /\ Len(fewShotPrompts) >= 4
    /\ \E k \in 1..Len(fewShotPrompts) :
          JSONParse(fewShotPrompts[k].content).value = <<"\"", "\n", "\\">>

\* the positions of AnsweredUsers in ascending order
AnsweredSeq ==
    [k \in 1..Cardinality(AnsweredUsers) |->
        CHOOSE i \in AnsweredUsers :
            Cardinality({j \in AnsweredUsers : j < i}) = k - 1]

\* the (user, assistant) messages of the last n answered requests, oldest
\* first
RecentPairPrompts(n) ==
    LET total == Len(AnsweredSeq)
        m     == Min(n, total)
    IN  [k \in 1..(2 * m) |->
            LET i == AnsweredSeq[total - m + ((k + 1) \div 2)]
            IN  IF k % 2 = 1
                THEN [role |-> "user", content |-> argHistory[i].text]
                ELSE [role |-> "assistant",
                      content |-> StringifyCode(argHistory[i + 1].text)]]

\* C22: with window N, formatConversationHistory returns the last
\* min(N, number of pairs) pairs of the transcript, oldest first; the history
\* of an assembled prompt is the window of 2 or of 1, so it holds at most 2
\* pairs and they are the most recent ones.
C22_WindowOfMostRecentPairs ==
    /\ pc = "history" => historyPrompts = RecentPairPrompts(historyWindow)
    /\ Assembled =>
          /\ Len(KeptHistory) <= 2 * InitialHistoryPairs
          /\ \/ KeptHistory = RecentPairPrompts(InitialHistoryPairs)
             \/ KeptHistory = RecentPairPrompts(ReducedHistoryPairs)

C22_Witness ==
    /\ pc = "assemble"
    /\ Cardinality(AnsweredUsers) > InitialHistoryPairs
    /\ Len(KeptHistory) = 2 * InitialHistoryPairs

\* size of the system message and the kept examples with the 2-pair history
SizeWithInitialHistory ==
    SystemPromptLength + ContentSize(KeptExamples)
      + ContentSize(RecentPairPrompts(InitialHistoryPairs))

\* a pair of the 2-pair window is missing from the assembled prompt
HistoryTrimmed == KeptHistory # RecentPairPrompts(InitialHistoryPairs)

\* the system message is in the prompt as it was given
SystemUntrimmed ==
    /\ initialPrompts # <<>>
    /\ initialPrompts[1] = [role |-> "system", content |-> SYSTEM_PROMPT]

\* history is trimmed only when, after the example pass, the running total
\* with the 2-pair history exceeds the budget, and then to the most recent
\* pair
HistoryTrimmedOnlyWhenOver ==
    HistoryTrimmed =>
        /\ SizeWithInitialHistory > sizeBudget
        /\ KeptHistory = RecentPairPrompts(ReducedHistoryPairs)

\* when history is trimmed, examples were trimmed before it
ExamplesTrimmedFirst ==
    (HistoryTrimmed /\ FormattedExamples # <<>>)
    => Len(KeptExamples) < Len(FormattedExamples)

\* the budget is checked again after the reduction: what is emitted fits, or
\* no history is emitted
RecheckedAfterReduction ==
    SizeWithInitialHistory > sizeBudget
    => \/ ContentSize(initialPrompts) <= sizeBudget
       \/ KeptHistory = <<>>

\* C23: examples are trimmed first and history second: the history is cut to
\* the most recent pair only if the running total after the example pass with
\* the selected history exceeds the budget, the budget is checked again after
\* the cut, history is never cut while the budget is met, and the system
\* message is never trimmed.
C23_ExamplesFirstHistorySecondRecheck ==
    Assembled =>
        /\ SystemUntrimmed
        /\ HistoryTrimmedOnlyWhenOver
        /\ ExamplesTrimmedFirst
        /\ RecheckedAfterReduction

\* C27: if an example message is kept, the system message, the kept examples
\* and the 2-pair history fit the budget and no history pair is trimmed;
\* whenever the 2-pair history does not fit behind the example pass, the
\* prompt holds no example message, also when an example would fit together
\* with the reduced history.
C27_NoExampleWithReducedHistory ==
    Assembled =>
        /\ KeptExamples # <<>> =>
              (SizeWithInitialHistory <= sizeBudget /\ ~HistoryTrimmed)
        /\ SizeWithInitialHistory > sizeBudget => KeptExamples = <<>>

C27_Witness ==
    /\ pc = "assemble"
    /\ HistoryTrimmed
    /\ FormattedExamples # <<>>
    /\ KeptExamples = <<>>
    /\ SystemPromptLength + Len(FormattedExamples[1].content)
          + ContentSize(KeptHistory) <= sizeBudget

-----------------------------------------------------------------------------
(* Properties of the index cache.                                          *)

\* the stored fingerprint is that of the indexed corpus; "" with no index
CacheConsistent ==
    IF cachedDB.built
    THEN cachedSamplesHash = hashSamples(cachedDB.docs)
    ELSE cachedSamplesHash = <<>>

\* what a direct call of retrieveRelevantExamples does to the cache
CacheStep ==
    /\ (cachedDB' # cachedDB) <=> (cachedSamplesHash' # cachedSamplesHash)
    /\ (pc = "idle" /\ pc' = "retrieve") =>
          IF trim(userPrompt') = <<>> \/ argSamples' = <<>>
          THEN UNCHANGED <<cachedDB, cachedSamplesHash>>
          ELSE IF cachedDB.built /\ cachedSamplesHash = hashSamples(argSamples')
          THEN UNCHANGED <<cachedDB, cachedSamplesHash>>
          ELSE /\ cachedDB' = BuildDatabase(argSamples')
               /\ cachedSamplesHash' = hashSamples(argSamples')
               /\ result' = retrieveRelevantExamples(userPrompt', argSamples',
                                maxExamples', NoDB, <<>>).result

\* C25: the stored fingerprint is always that of the corpus indexed in
\* cachedDB and the two are replaced together; a call whose corpus has the
\* stored fingerprint leaves the index as it is, and a call whose corpus has
\* another fingerprint builds the index from its corpus before it searches.
C25_FingerprintGuardsIndex == []CacheConsistent /\ [][CacheStep]_vars

C25_Witness ==
    /\ Scored
    /\ cachedDB.built
    /\ cachedDB # BuildDatabase(argSamples)
    /\ cachedSamplesHash = hashSamples(argSamples)

-----------------------------------------------------------------------------
(* Properties of the de-duplication key.                                   *)

\* C26: hits with different (description, code) are never collapsed into one
\* entry and never have their scores summed, also when a description or a
\* code holds the separator text: every hit whose identity is in the corpus
\* has an entry of its own identity, scored with the hits of that identity
\* alone.
C26_KeySeparatesIdentities ==
    Scored =>
        \A h \in 1..Len(LastHits) :
            LET id == Ident(LastHits[h].document)
            IN  FirstInCorpus(id) # 0 =>
                    \E i \in 1..Len(scoredSamples) :
                        /\ Ident(scoredSamples[i].sample) = id
                        /\ scoredSamples[i].score = HitScoreSum(id)

-----------------------------------------------------------------------------
(* Properties of the session lifecycle and of the requests.                *)

\* the sessions of different submits are different sessions
FreshSessions ==
    \A i, j \in 1..Len(requests) :
        (i # j /\ requests[i].sessionId # 0 /\ requests[j].sessionId # 0)
        => requests[i].sessionId # requests[j].sessionId

\* a session is destroyed once, after its prompt call has settled and before
\* the message of its request is appended
DestroyedOnceInOrder ==
    \A i \in 1..Len(requests) :
        LET r == requests[i]
        IN  /\ r.session = "created" =>
                  (r.stage = "prompt" /\ r.destroyCalls = 0)
            /\ r.session = "destroyed" =>
                  (r.destroyCalls = 1 /\ r.response # NotSettled)
            /\ (r.appended # "none" /\ r.sessionId # 0) =>
                  (r.session = "destroyed" /\ r.destroyCalls = 1)

\* no call of destroySession, by the handler or direct, rejects
DestroyNeverRejects ==
    /\ \A i \in 1..Len(requests) : requests[i].destroySettled # "rejected"
    /\ pc \in {"destroySession", "destroySessionTs"} => outcome = "returned"

\* C24: every submit on the local path gets a session of its own, each
\* session is destroyed exactly once after its prompt call has settled
\* (resolved, rejected or answered with an invalid response) and before the
\* system or error message is appended, and destroySession never rejects,
\* also when session.destroy throws or rejects.
C24_SessionDestroyedOnceNeverRejects ==
    /\ FreshSessions
    /\ DestroyedOnceInOrder
    /\ DestroyNeverRejects

\* the i-th submit that appended a user message has stopped its interval and
\* appended its system or error message
Answered(i) ==
    /\ Len(requests) >= i
    /\ requests[i].interval = "cleared"
    /\ requests[i].appended \in {"system", "error"}

\* C28: every submit that appends a user message eventually stops the
\* interval it started and appends a system or error message, on the mock,
\* the remote and the local path.
C28_EverySubmitAnswered ==
    \A i \in 1..MaxSubmits : (Len(requests) >= i) ~> Answered(i)

\* the history a submit made now would pass: messages.slice(0, -1) of the
\* transcript with its own user message pushed
NextHistory == appMessages

\* the pairs formatConversationHistory builds from a history
BuiltPairs(history) ==
    LET pairs == HistoryPairs(history, 1)
    IN  {pairs[k] : k \in 1..Len(pairs)}

\* the reply of a pair is the message appended by the request that pushed
\* the user message of the pair
SameRequest(pair) ==
    \E i \in 1..Len(requests) :
        /\ requests[i].userMsg = pair.user.id
        /\ requests[i].systemMsg = pair.system.id

OwnMessageAbsent(i) ==
    \A k \in 1..Len(requests[i].history) :
        requests[i].history[k].id # requests[i].userMsg

\* C29: also when submits overlap, every (user, assistant) pair that
\* formatConversationHistory builds, from the history a request was passed
\* or from the transcript a later request would pass, holds a user message
\* and the system message appended for that same user message; and the
\* history passed to a request never holds the user message of the request.
C29_PairsOfOneRequest ==
    /\ \A i \in 1..Len(requests) :
          /\ OwnMessageAbsent(i)
          /\ \A pair \in BuiltPairs(requests[i].history) : SameRequest(pair)
    /\ \A pair \in BuiltPairs(NextHistory) : SameRequest(pair)

\* text.includes(part)
Includes(text, part) ==
    \E k \in 0..(Len(text) - Len(part)) :
        SubSeq(text, k + 1, k + Len(part)) = part

CarriesSystemPrompt(sent) ==
    \E k \in 1..Len(sent) : Includes(sent[k].text, SYSTEM_PROMPT)

\* the last entry has the role user and its text is, or ends with, the prompt
EndsWithPrompt(sent, prompt) ==
    /\ sent # <<>>
    /\ sent[Len(sent)].role = "user"
    /\ Len(sent[Len(sent)].text) >= Len(prompt)
    /\ SubSeq(sent[Len(sent)].text,
              Len(sent[Len(sent)].text) - Len(prompt) + 1,
              Len(sent[Len(sent)].text)) = prompt

RemoteRequest(i) == i <= Len(requests) /\ requests[i].path = "remote"

\* C30: what a request of the remote path sends to the backend, with either
\* version of generateRemoteResponse and for every conversation history,
\* includes SYSTEM_PROMPT and ends with the user prompt of the request as its
\* last user entry.
C30_RemoteRequestCarriesSystemPrompt ==
    \A i \in 1..MaxSubmits :
        RemoteRequest(i) =>
            /\ CarriesSystemPrompt(requests[i].contents)
            /\ EndsWithPrompt(requests[i].contents, requests[i].text)
            /\ CarriesSystemPrompt(requests[i].chat)
            /\ EndsWithPrompt(requests[i].chat, requests[i].text)

====
